---- MODULE Spec2Model ----
(***************************************************************************)
(* A model of the resume parser (backend/resume_parser.py) and of the      *)
(* upload, details and delete handlers of the HTTP application             *)
(* (backend/main.py).                                                      *)
(*                                                                         *)
(* Python values are tagged records: None, Str, Num, Bool, List, Dict.     *)
(* Python strings are TLA+ strings, read character by character with       *)
(* SubSeq.  A number m / 10^e is Num(m, e) with e as small as possible, so *)
(* that equal numbers are equal records (7.50 = 7.5).                      *)
(*                                                                         *)
(* The backtick (U+0060) cannot be written in a TLA+ string: the tilde     *)
(* stands for it throughout, and no modelled text holds a real tilde.      *)
(***************************************************************************)
EXTENDS Integers, Sequences, FiniteSets, TLC

VARIABLES
    api_key,    \* the credential read at construction: os.getenv("GEMINI_API_KEY")
    use_mock,   \* resume_parser.use_mock
    llm,        \* resume_parser.llm
    db,         \* the rows of the resumes table, in the order of their insertion
    next_id,    \* the next value of the table's serial primary key
    pc,         \* the caller's position: "idle", or "llm" inside the call of the service
    last,       \* the call in progress or last finished: its name, arguments and result
    uploads     \* the uploads handled side by side: of each its position and its locals

vars == <<api_key, use_mock, llm, db, next_id, pc, last, uploads>>

(***************************************************************************)
(* Python values                                                           *)
(***************************************************************************)
None == [t |-> "None"]

Str(s) == [t |-> "str", s |-> s]

Bool(b) == [t |-> "bool", b |-> b]

List(l) == [t |-> "list", l |-> l]

Dict(d) == [t |-> "dict", d |-> d]

EmptyDict == Dict([k \in {} |-> None])

RECURSIVE Normalize(_, _)
Normalize(m, e) ==
    IF e > 0 /\ m % 10 = 0 THEN Normalize(m \div 10, e - 1)
    ELSE [t |-> "num", m |-> m, e |-> e]

Num(m, e) == Normalize(m, e)

RECURSIVE Pow10(_)
Pow10(e) == IF e = 0 THEN 1 ELSE 10 * Pow10(e - 1)

\* Python truthiness: None, "", 0, [], {} and False are falsy.
Truthy(v) ==
    CASE v.t = "None" -> FALSE
      [] v.t = "str"  -> Len(v.s) > 0
      [] v.t = "num"  -> v.m # 0
      [] v.t = "bool" -> v.b
      [] v.t = "list" -> Len(v.l) > 0
      [] v.t = "dict" -> DOMAIN v.d # {}
      [] OTHER        -> TRUE

\* x or y
Or(x, y) == IF Truthy(x) THEN x ELSE y

\* An operation's outcome: a returned value or a raised exception.
Ok(v) == [ok |-> TRUE, val |-> v]

Raise(type, msg) == [ok |-> FALSE, type |-> type, msg |-> msg]

(***************************************************************************)
(* Python strings                                                          *)
(***************************************************************************)
Min(S) == CHOOSE x \in S : \A y \in S : x <= y

Max(S) == CHOOSE x \in S : \A y \in S : x >= y

At(s, i) == SubSeq(s, i, i)

\* The characters str.strip() and str.split() treat as whitespace.
IsSpace(c) == c \in {" ", "\n", "\t", "\r"}

\* The first position from i on that holds no whitespace, Len(s) + 1 if none.
RECURSIVE FirstNonSpace(_, _)
FirstNonSpace(s, i) ==
    IF i <= Len(s) /\ IsSpace(At(s, i)) THEN FirstNonSpace(s, i + 1) ELSE i

\* The last position up to i that holds no whitespace, 0 if none.
RECURSIVE LastNonSpace(_, _)
LastNonSpace(s, i) ==
    IF i >= 1 /\ IsSpace(At(s, i)) THEN LastNonSpace(s, i - 1) ELSE i

\* s.strip()
Strip(s) == SubSeq(s, FirstNonSpace(s, 1), LastNonSpace(s, Len(s)))

\* s.startswith(p)
StartsWith(s, p) == Len(s) >= Len(p) /\ SubSeq(s, 1, Len(p)) = p

\* s.endswith(p)
EndsWith(s, p) == Len(s) >= Len(p) /\ SubSeq(s, Len(s) - Len(p) + 1, Len(s)) = p

\* s[a:-b], for a >= 0 and b > 0
Slice(s, a, b) ==
    LET n  == Len(s)
        lo == IF a < n THEN a ELSE n
        hi == IF n - b > 0 THEN n - b ELSE 0
    IN  IF hi <= lo THEN "" ELSE SubSeq(s, lo + 1, hi)

\* sub in s
Contains(s, sub) ==
    \E i \in 1..(Len(s) - Len(sub) + 1) : SubSeq(s, i, i + Len(sub) - 1) = sub

UpperCase == "ABCDEFGHIJKLMNOPQRSTUVWXYZ"

LowerCase == "abcdefghijklmnopqrstuvwxyz"

LowerChar(c) ==
    IF \E i \in 1..26 : At(UpperCase, i) = c
    THEN At(LowerCase, CHOOSE i \in 1..26 : At(UpperCase, i) = c)
    ELSE c

UpperChar(c) ==
    IF \E i \in 1..26 : At(LowerCase, i) = c
    THEN At(UpperCase, CHOOSE i \in 1..26 : At(LowerCase, i) = c)
    ELSE c

\* s.lower(): every character in lower case (the two halves of s, each lowered)
RECURSIVE Lower(_)
Lower(s) ==
    IF Len(s) <= 1 THEN LowerChar(s)
    ELSE Lower(SubSeq(s, 1, Len(s) \div 2)) \o Lower(SubSeq(s, Len(s) \div 2 + 1, Len(s)))

\* s.capitalize(): the first character in upper case, the rest in lower case
Capitalize(s) ==
    IF Len(s) = 0 THEN "" ELSE UpperChar(At(s, 1)) \o Lower(SubSeq(s, 2, Len(s)))

\* s.split(): the maximal runs of non-whitespace characters, in order
RECURSIVE Split(_)
Split(s) ==
    LET keep == {i \in 1..Len(s) : ~IsSpace(At(s, i))}
    IN  IF keep = {} THEN <<>>
        ELSE LET b    == Min(keep)
                 stop == {i \in b..Len(s) : IsSpace(At(s, i))}
                 e    == IF stop = {} THEN Len(s) ELSE Min(stop) - 1
             IN  <<SubSeq(s, b, e)>> \o Split(SubSeq(s, e + 1, Len(s)))

\* s.strip(chars)
StripChars(s, chars) ==
    LET keep == {i \in 1..Len(s) : ~Contains(chars, At(s, i))}
    IN  IF keep = {} THEN "" ELSE SubSeq(s, Min(keep), Max(keep))

(***************************************************************************)
(* json.loads, for the JSON texts of the model: objects, arrays, strings   *)
(* without escapes, numbers without exponent, null, true and false.  A     *)
(* parse step answers [ok, val, pos]: the value read and the position      *)
(* after it, or ok = FALSE.                                                *)
(***************************************************************************)
Digits == "0123456789"

IsDigit(c) == Len(c) = 1 /\ Contains(Digits, c)

DigitVal(c) == (CHOOSE i \in 1..10 : At(Digits, i) = c) - 1

IsJsonSpace(c) == c \in {" ", "\n", "\t", "\r"}

NoParse == [ok |-> FALSE]

Parsed(v, p) == [ok |-> TRUE, val |-> v, pos |-> p]

\* The first position from i on that holds no JSON whitespace.
RECURSIVE SkipWs(_, _)
SkipWs(s, i) == IF i <= Len(s) /\ IsJsonSpace(At(s, i)) THEN SkipWs(s, i + 1) ELSE i

\* The position after the run of digits that starts at i.
RECURSIVE DigitsEnd(_, _)
DigitsEnd(s, i) == IF i <= Len(s) /\ IsDigit(At(s, i)) THEN DigitsEnd(s, i + 1) ELSE i

\* The number the digits s[i..j-1] write.
RECURSIVE DigitsVal(_, _, _)
DigitsVal(s, i, j) ==
    IF j <= i THEN 0 ELSE 10 * DigitsVal(s, i, j - 1) + DigitVal(At(s, j - 1))

\* -?(0|[1-9][0-9]*)(\.[0-9]+)?
ParseNumber(s, i) ==
    LET neg  == i <= Len(s) /\ At(s, i) = "-"
        b    == IF neg THEN i + 1 ELSE i
    IN  IF ~(b <= Len(s) /\ IsDigit(At(s, b))) THEN NoParse
        ELSE LET ie   == IF At(s, b) = "0" THEN b + 1 ELSE DigitsEnd(s, b)
                 frac == ie + 1 <= Len(s) /\ At(s, ie) = "." /\ IsDigit(At(s, ie + 1))
                 fe   == IF frac THEN DigitsEnd(s, ie + 1) ELSE ie
                 e    == IF frac THEN fe - (ie + 1) ELSE 0
                 mag  == DigitsVal(s, b, ie) * Pow10(e)
                         + (IF frac THEN DigitsVal(s, ie + 1, fe) ELSE 0)
             IN  Parsed(Num(IF neg THEN 0 - mag ELSE mag, e), fe)

\* The position of the quote that closes a string, scanning from i on: 0 when
\* the text ends or a control character comes first.
RECURSIVE ClosingQuote(_, _)
ClosingQuote(s, i) ==
    IF i > Len(s) \/ At(s, i) \in {"\n", "\t", "\r"} THEN 0
    ELSE IF At(s, i) = "\"" THEN i
    ELSE ClosingQuote(s, i + 1)

\* A string whose opening quote is at i: the characters up to the next quote.
ParseString(s, i) ==
    LET j == ClosingQuote(s, i + 1)
    IN  IF j = 0 THEN NoParse ELSE Parsed(SubSeq(s, i + 1, j - 1), j + 1)

ParseWord(s, i, word, v) ==
    IF i + Len(word) - 1 <= Len(s) /\ SubSeq(s, i, i + Len(word) - 1) = word
    THEN Parsed(v, i + Len(word))
    ELSE NoParse

RECURSIVE ParseValue(_, _)
RECURSIVE ParseMembers(_, _, _)
RECURSIVE ParseElements(_, _, _)

\* The members of an object from i on, after "{" or ","; acc holds the members
\* read so far, and a repeated key keeps its last value.
ParseMembers(s, i, acc) ==
    LET k == SkipWs(s, i)
    IN  IF ~(k <= Len(s) /\ At(s, k) = "\"") THEN NoParse
        ELSE LET key == ParseString(s, k)
             IN  IF ~key.ok THEN NoParse
                 ELSE LET c == SkipWs(s, key.pos)
                      IN  IF ~(c <= Len(s) /\ At(s, c) = ":") THEN NoParse
                          ELSE LET v == ParseValue(s, SkipWs(s, c + 1))
                               IN  IF ~v.ok THEN NoParse
                                   ELSE LET n    == SkipWs(s, v.pos)
                                            acc2 == [x \in DOMAIN acc \cup {key.val} |->
                                                        IF x = key.val THEN v.val ELSE acc[x]]
                                        IN  IF n > Len(s) THEN NoParse
                                            ELSE IF At(s, n) = "}" THEN Parsed(Dict(acc2), n + 1)
                                            ELSE IF At(s, n) = "," THEN ParseMembers(s, n + 1, acc2)
                                            ELSE NoParse

\* The elements of an array from i on, after "[" or ",".
ParseElements(s, i, acc) ==
    LET v == ParseValue(s, SkipWs(s, i))
    IN  IF ~v.ok THEN NoParse
        ELSE LET n == SkipWs(s, v.pos)
             IN  IF n > Len(s) THEN NoParse
                 ELSE IF At(s, n) = "]" THEN Parsed(List(Append(acc, v.val)), n + 1)
                 ELSE IF At(s, n) = "," THEN ParseElements(s, n + 1, Append(acc, v.val))
                 ELSE NoParse

\* The value that starts at i.
ParseValue(s, i) ==
    IF i > Len(s) THEN NoParse
    ELSE LET c == At(s, i)
         IN  CASE c = "\"" -> LET r == ParseString(s, i)
                              IN  IF r.ok THEN Parsed(Str(r.val), r.pos) ELSE NoParse
               [] c = "{"  -> LET k == SkipWs(s, i + 1)
                              IN  IF k <= Len(s) /\ At(s, k) = "}"
                                  THEN Parsed(EmptyDict, k + 1)
                                  ELSE ParseMembers(s, i + 1, [x \in {} |-> None])
               [] c = "["  -> LET k == SkipWs(s, i + 1)
                              IN  IF k <= Len(s) /\ At(s, k) = "]"
                                  THEN Parsed(List(<<>>), k + 1)
                                  ELSE ParseElements(s, i + 1, <<>>)
               [] c = "n"  -> ParseWord(s, i, "null", None)
               [] c = "t"  -> ParseWord(s, i, "true", Bool(TRUE))
               [] c = "f"  -> ParseWord(s, i, "false", Bool(FALSE))
               [] c = "-" \/ IsDigit(c) -> ParseNumber(s, i)
               [] OTHER    -> NoParse

\* json.loads(s): one value with whitespace around it and nothing else, or a
\* JSONDecodeError (whose message, which names the place of the error, is cut
\* down to its first words).
JsonLoads(s) ==
    LET v == ParseValue(s, SkipWs(s, 1))
    IN  IF v.ok /\ SkipWs(s, v.pos) = Len(s) + 1
        THEN Ok(v.val)
        ELSE Raise("JSONDecodeError", "Expecting value")

(***************************************************************************)
(* ResumeParser (backend/resume_parser.py)                                 *)
(***************************************************************************)
\* os.getenv(name): the value of the variable, or None when it is not set.
Getenv(environ, name) == IF name \in DOMAIN environ THEN Str(environ[name]) ELSE None

PlaceholderKey == "your_gemini_api_key_here"

\* The client __init__ builds for a usable credential.
ChatGoogleGenerativeAI(key) ==
    [t |-> "ChatGoogleGenerativeAI", model |-> "gemini-pro",
     google_api_key |-> key, temperature |-> Num(1, 1)]

\* __init__ testing the credential for being set only, not for being the
\* placeholder.
ResumeParserInitAnyKey(key) ==
    IF Truthy(key)
    THEN [llm |-> ChatGoogleGenerativeAI(key.s), use_mock |-> FALSE]
    ELSE [llm |-> None, use_mock |-> TRUE]

\* ResumeParser.__init__: the fields of the parser, from the credential.
ResumeParserInit(key) ==
    IF Truthy(key) /\ key # Str(PlaceholderKey)
    THEN [llm |-> ChatGoogleGenerativeAI(key.s), use_mock |-> FALSE]
    ELSE [llm |-> None, use_mock |-> TRUE]

\* The loop of extract_text_from_pdf without the newline appended after each page.
RECURSIVE ReadPagesRunOn(_, _, _)
ReadPagesRunOn(pages, i, text) ==
    IF i > Len(pages) THEN Ok(text)
    ELSE IF ~pages[i].ok THEN pages[i]
    ELSE ReadPagesRunOn(pages, i + 1, text \o pages[i].val)

\* text after "text += page.extract_text() + newline" over the pages from i on:
\* an outcome, the first page that cannot be read raising.
RECURSIVE ReadPages(_, _, _)
ReadPages(pages, i, text) ==
    IF i > Len(pages) THEN Ok(text)
    ELSE IF ~pages[i].ok THEN pages[i]
    ELSE ReadPages(pages, i + 1, text \o pages[i].val \o "\n")

\* extract_text_from_pdf(pdf_file): a file is [reader, pages], reader being the
\* outcome of PdfReader(pdf_file) and pages the outcomes of extract_text().
extract_text_from_pdf(pdf_file) ==
    LET read == IF pdf_file.reader.ok THEN ReadPages(pdf_file.pages, 1, "")
                ELSE pdf_file.reader
    IN  IF read.ok THEN Ok(Strip(read.val))
        ELSE Raise("Exception", "Error extracting text from PDF: " \o read.msg)

PromptHead ==
    "\n"
    \o "        Analyze the following resume and extract comprehensive information in JSON format. Be thorough and accurate.\n"
    \o "        \n"
    \o "        Resume Text:\n"
    \o "        "

PromptTail ==
    "\n"
    \o "        \n"
    \o "        Please extract the following information and return it as a valid JSON object:\n"
    \o "        \n"
    \o "        {\n"
    \o "            \"personal_info\": {\n"
    \o "                \"name\": \"Full name\",\n"
    \o "                \"email\": \"Email address\",\n"
    \o "                \"phone\": \"Phone number\",\n"
    \o "                \"address\": \"Full address\",\n"
    \o "                \"linkedin\": \"LinkedIn profile URL\",\n"
    \o "                \"github\": \"GitHub profile URL\",\n"
    \o "                \"website\": \"Personal website URL\"\n"
    \o "            },\n"
    \o "            \"skills\": {\n"
    \o "                \"core_skills\": [\"Technical skills array\"],\n"
    \o "                \"soft_skills\": [\"Soft skills array\"],\n"
    \o "                \"certifications\": [\"Certifications array\"],\n"
    \o "                \"languages\": [\n"
    \o "                    {\"language\": \"Language name\", \"proficiency\": \"Proficiency level\"}\n"
    \o "                ]\n"
    \o "            },\n"
    \o "            \"work_experience\": [\n"
    \o "                {\n"
    \o "                    \"company\": \"Company name\",\n"
    \o "                    \"position\": \"Job title\",\n"
    \o "                    \"duration\": \"Employment duration\",\n"
    \o "                    \"location\": \"Work location\",\n"
    \o "                    \"description\": [\"Bullet points of responsibilities\"],\n"
    \o "                    \"technologies\": [\"Technologies used\"]\n"
    \o "                }\n"
    \o "            ],\n"
    \o "            \"education\": [\n"
    \o "                {\n"
    \o "                    \"institution\": \"School/University name\",\n"
    \o "                    \"degree\": \"Degree type\",\n"
    \o "                    \"field_of_study\": \"Major/Field\",\n"
    \o "                    \"graduation_date\": \"Graduation date\",\n"
    \o "                    \"gpa\": \"GPA if mentioned\",\n"
    \o "                    \"location\": \"Institution location\"\n"
    \o "                }\n"
    \o "            ],\n"
    \o "            \"projects\": [\n"
    \o "                {\n"
    \o "                    \"name\": \"Project name\",\n"
    \o "                    \"description\": \"Project description\",\n"
    \o "                    \"technologies\": [\"Technologies used\"],\n"
    \o "                    \"duration\": \"Project duration\",\n"
    \o "                    \"url\": \"Project URL if available\"\n"
    \o "                }\n"
    \o "            ],\n"
    \o "            \"achievements\": [\"List of achievements, awards, publications\"],\n"
    \o "            \"analysis\": {\n"
    \o "                \"resume_rating\": 8.5,\n"
    \o "                \"strengths\": \"Key strengths of this resume\",\n"
    \o "                \"improvement_areas\": \"Areas that need improvement with specific suggestions\",\n"
    \o "                \"upskill_suggestions\": \"Detailed suggestions for skills to learn and career growth\",\n"
    \o "                \"missing_sections\": [\"List of commonly expected resume sections that are missing\"]\n"
    \o "            }\n"
    \o "        }\n"
    \o "        \n"
    \o "        Instructions:\n"
    \o "        1. Extract all available information accurately\n"
    \o "        2. For missing information, use null or empty arrays appropriately\n"
    \o "        3. Rate the resume out of 10 based on completeness, clarity, and professional presentation\n"
    \o "        4. Provide specific, actionable improvement suggestions\n"
    \o "        5. Suggest relevant upskilling opportunities based on the person's background\n"
    \o "        6. Identify missing resume sections like summary, certifications, etc.\n"
    \o "        7. Return only valid JSON without any additional text or formatting\n"
    \o "        "

\* create_analysis_prompt(resume_text)
create_analysis_prompt(resume_text) == PromptHead \o resume_text \o PromptTail

skill_keywords ==
    <<"python", "javascript", "java", "react", "node", "sql", "git", "aws",
      "docker", "kubernetes">>

\* The loop over words without its break: the last word holding "@" and ".".
FindEmailLast(words) ==
    LET hits == {i \in 1..Len(words) : Contains(words[i], "@") /\ Contains(words[i], ".")}
    IN  IF hits = {} THEN None ELSE Str(StripChars(words[Max(hits)], ".,()[]"))

\* The loop over words: the first word holding "@" and ".", stripped of
\* ".,()[]" at both ends, or None.
FindEmail(words) ==
    LET hits == {i \in 1..Len(words) : Contains(words[i], "@") /\ Contains(words[i], ".")}
    IN  IF hits = {} THEN None ELSE Str(StripChars(words[Min(hits)], ".,()[]"))

\* The loop over skill_keywords run from the end of the list to its start.
RECURSIVE FindSkillsBackwards(_, _)
FindSkillsBackwards(lowered, i) ==
    IF i > Len(skill_keywords) THEN <<>>
    ELSE FindSkillsBackwards(lowered, i + 1)
         \o (IF Contains(lowered, skill_keywords[i])
             THEN <<Str(Capitalize(skill_keywords[i]))>> ELSE <<>>)

\* The loop over skill_keywords left at the first keyword found.
RECURSIVE FindSkillsFirst(_, _)
FindSkillsFirst(lowered, i) ==
    IF i > Len(skill_keywords) THEN <<>>
    ELSE IF Contains(lowered, skill_keywords[i])
    THEN <<Str(Capitalize(skill_keywords[i]))>>
    ELSE FindSkillsFirst(lowered, i + 1)

\* The loop over skill_keywords from i on: each keyword found in the lower-cased
\* text, capitalized, in the order of the list.
RECURSIVE FindSkills(_, _)
FindSkills(lowered, i) ==
    IF i > Len(skill_keywords) THEN <<>>
    ELSE (IF Contains(lowered, skill_keywords[i])
          THEN <<Str(Capitalize(skill_keywords[i]))>> ELSE <<>>)
         \o FindSkills(lowered, i + 1)

\* l[:n]
Take(l, n) == SubSeq(l, 1, IF Len(l) < n THEN Len(l) ELSE n)

\* get_mock_analysis giving the name without the marker of the mock analysis.
get_mock_analysis_unmarked(resume_text) ==
    LET words       == Split(Lower(resume_text))
        email       == FindEmail(words)
        tech_skills == FindSkills(Lower(resume_text), 1)
    IN  Dict([
          personal_info |-> Dict([
            name     |-> Str("Sample Name"),
            email    |-> Or(email, Str("sample@email.com")),
            phone    |-> Str("+1-234-567-8900"),
            address  |-> Str("Sample Address"),
            linkedin |-> None,
            github   |-> None,
            website  |-> None]),
          skills |-> Dict([
            core_skills    |-> Or(List(tech_skills),
                                  List(<<Str("Python"), Str("JavaScript"), Str("SQL")>>)),
            soft_skills    |-> List(<<Str("Communication"), Str("Problem Solving"),
                                      Str("Team Work")>>),
            certifications |-> List(<<>>),
            languages      |-> List(<<Dict([language |-> Str("English"),
                                            proficiency |-> Str("Native")])>>)]),
          work_experience |-> List(<<Dict([
            company      |-> Str("Sample Company"),
            position     |-> Str("Software Developer"),
            duration     |-> Str("2022 - Present"),
            location     |-> Str("Remote"),
            description  |-> List(<<Str("Developed applications"),
                                    Str("Collaborated with team")>>),
            technologies |-> Or(List(Take(tech_skills, 3)),
                                List(<<Str("Python"), Str("React")>>))])>>),
          education |-> List(<<Dict([
            institution     |-> Str("Sample University"),
            degree          |-> Str("Bachelor of Science"),
            field_of_study  |-> Str("Computer Science"),
            graduation_date |-> Str("2022"),
            gpa             |-> None,
            location        |-> Str("Sample City")])>>),
          projects |-> List(<<Dict([
            name         |-> Str("Sample Project"),
            description  |-> Str("A sample project for demonstration"),
            technologies |-> Or(List(Take(tech_skills, 2)), List(<<Str("Python")>>)),
            duration     |-> Str("3 months"),
            url          |-> None])>>),
          achievements |-> List(<<Str("Mock Achievement 1"), Str("Mock Achievement 2")>>),
          analysis |-> Dict([
            resume_rating       |-> Num(75, 1),
            strengths           |-> Str("This is a mock analysis. The resume shows technical skills and experience."),
            improvement_areas   |-> Str("Mock suggestion: Add more quantifiable achievements and specific project outcomes."),
            upskill_suggestions |-> Str("Mock suggestion: Consider learning cloud technologies like AWS or Azure."),
            missing_sections    |-> List(<<Str("Professional Summary"), Str("Certifications")>>)]),
          raw_text |-> Str(resume_text)])

\* get_mock_analysis(resume_text)
get_mock_analysis(resume_text) ==
    LET words       == Split(Lower(resume_text))
        email       == FindEmail(words)
        tech_skills == FindSkills(Lower(resume_text), 1)
    IN  Dict([
          personal_info |-> Dict([
            name     |-> Str("Sample Name (Mock)"),
            email    |-> Or(email, Str("sample@email.com")),
            phone    |-> Str("+1-234-567-8900"),
            address  |-> Str("Sample Address"),
            linkedin |-> None,
            github   |-> None,
            website  |-> None]),
          skills |-> Dict([
            core_skills    |-> Or(List(tech_skills),
                                  List(<<Str("Python"), Str("JavaScript"), Str("SQL")>>)),
            soft_skills    |-> List(<<Str("Communication"), Str("Problem Solving"),
                                      Str("Team Work")>>),
            certifications |-> List(<<>>),
            languages      |-> List(<<Dict([language |-> Str("English"),
                                            proficiency |-> Str("Native")])>>)]),
          work_experience |-> List(<<Dict([
            company      |-> Str("Sample Company"),
            position     |-> Str("Software Developer"),
            duration     |-> Str("2022 - Present"),
            location     |-> Str("Remote"),
            description  |-> List(<<Str("Developed applications"),
                                    Str("Collaborated with team")>>),
            technologies |-> Or(List(Take(tech_skills, 3)),
                                List(<<Str("Python"), Str("React")>>))])>>),
          education |-> List(<<Dict([
            institution     |-> Str("Sample University"),
            degree          |-> Str("Bachelor of Science"),
            field_of_study  |-> Str("Computer Science"),
            graduation_date |-> Str("2022"),
            gpa             |-> None,
            location        |-> Str("Sample City")])>>),
          projects |-> List(<<Dict([
            name         |-> Str("Sample Project"),
            description  |-> Str("A sample project for demonstration"),
            technologies |-> Or(List(Take(tech_skills, 2)), List(<<Str("Python")>>)),
            duration     |-> Str("3 months"),
            url          |-> None])>>),
          achievements |-> List(<<Str("Mock Achievement 1"), Str("Mock Achievement 2")>>),
          analysis |-> Dict([
            resume_rating       |-> Num(75, 1),
            strengths           |-> Str("This is a mock analysis. The resume shows technical skills and experience."),
            improvement_areas   |-> Str("Mock suggestion: Add more quantifiable achievements and specific project outcomes."),
            upskill_suggestions |-> Str("Mock suggestion: Consider learning cloud technologies like AWS or Azure."),
            missing_sections    |-> List(<<Str("Professional Summary"), Str("Certifications")>>)]),
          raw_text |-> Str(resume_text)])

\* type(v).__name__
TypeName(v) ==
    CASE v.t = "None" -> "NoneType"
      [] v.t = "num"  -> IF v.e = 0 THEN "int" ELSE "float"
      [] OTHER        -> v.t

\* obj[key] = value, key a string
SetItem(obj, key, value) ==
    IF obj.t = "dict"
    THEN Ok(Dict([k \in DOMAIN obj.d \cup {key} |-> IF k = key THEN value ELSE obj.d[k]]))
    ELSE IF obj.t = "list"
    THEN Raise("TypeError", "list indices must be integers or slices, not str")
    ELSE Raise("TypeError", "'" \o TypeName(obj) \o "' object does not support item assignment")

BacktickFence == "~~~"

BacktickFenceJson == "~~~json"

\* The second decoding cutting three characters at the start whatever the
\* fence, so that the word json stays in front of the text.
DecodeFencedShort(content) ==
    [out |-> JsonLoads(IF StartsWith(content, BacktickFence) THEN Slice(content, 3, 3)
                       ELSE content),
     loads |-> 2,
     unfenced |-> StartsWith(content, BacktickFence)]

\* The second decoding in analyze_resume, after json.loads(response_content)
\* raised: of the text stripped of whitespace and, when it starts with a
\* fence, cut by the fence's length at the start and by three characters at
\* the end.
DecodeFenced(content) ==
    [out |-> JsonLoads(IF StartsWith(content, BacktickFenceJson) THEN Slice(content, 7, 3)
                       ELSE IF StartsWith(content, BacktickFence) THEN Slice(content, 3, 3)
                       ELSE content),
     loads |-> 2,
     unfenced |-> StartsWith(content, BacktickFence)]

\* The first decoding decides: its value, or the second decoding.
DecodeAgain(response_content, first) ==
    IF first.ok THEN [out |-> first, loads |-> 1, unfenced |-> FALSE]
    ELSE DecodeFenced(Strip(response_content))

\* The decoding of the service's text in analyze_resume.  loads counts the
\* json.loads calls, unfenced tells whether characters were cut off.
ParseResponse(response_content) == DecodeAgain(response_content, JsonLoads(response_content))

\* The call that did not happen.
NotCalled == Raise("NotCalled", "")

\* The outer handler of analyze_resume: any exception e leaves as
\* Exception("Error analyzing resume: " + str(e)).
AnalyzeError(e) == Raise("Exception", "Error analyzing resume: " \o e.msg)

\* An outcome that is an exception, as the outer handler lets it leave.
Caught(outcome) == IF outcome.ok THEN outcome ELSE AnalyzeError(outcome)

\* What a call of analyze_resume did:
\*   out      the returned dictionary, or the exception raised
\*   text     the outcome of extract_text_from_pdf
\*   via      the strategy that produced out: "mock", "live" or "none"
\*   service  the service's answer, NotCalled when it was not called
\*   calls    the number of calls of the service
\*   loads    the number of json.loads calls
\*   unfenced whether characters were cut off the response
Returned(text, via, service, calls, loads, unfenced, out) ==
    [text |-> text, via |-> via, service |-> service, calls |-> calls,
     loads |-> loads, unfenced |-> unfenced, out |-> out]

\* analyze_resume answering a response it cannot decode with the mock analysis.
AnalyzeParsedOrMock(text, service, parsed) ==
    IF parsed.out.ok
    THEN Returned(text, "live", service, 1, parsed.loads, parsed.unfenced,
                  Caught(SetItem(parsed.out.val, "raw_text", Str(text.val))))
    ELSE Returned(text, "mock", service, 1, parsed.loads, parsed.unfenced,
                  Ok(get_mock_analysis(text.val)))

\* analyze_resume keeping the raw_text of the decoded object when it has one
\* (setdefault in place of the assignment).
AnalyzeParsedSetDefault(text, service, parsed) ==
    Returned(text, "live", service, 1, parsed.loads, parsed.unfenced,
             IF ~parsed.out.ok THEN AnalyzeError(parsed.out)
             ELSE IF parsed.out.val.t = "dict" /\ "raw_text" \in DOMAIN parsed.out.val.d
             THEN parsed.out
             ELSE Caught(SetItem(parsed.out.val, "raw_text", Str(text.val))))

\* analyze_resume from the decoded response on: the extracted text is stored
\* under raw_text and the dictionary returned.
AnalyzeParsed(text, service, parsed) ==
    Returned(text, "live", service, 1, parsed.loads, parsed.unfenced,
             IF parsed.out.ok
             THEN Caught(SetItem(parsed.out.val, "raw_text", Str(text.val)))
             ELSE AnalyzeError(parsed.out))

\* analyze_resume without the check of the extracted text.
AnalyzeTextUnchecked(self, text, service) ==
    IF ~text.ok
    THEN Returned(text, "none", NotCalled, 0, 0, FALSE, AnalyzeError(text))
    ELSE IF self.use_mock
    THEN Returned(text, "mock", NotCalled, 0, 0, FALSE, Ok(get_mock_analysis(text.val)))
    ELSE IF ~service.ok
    THEN Returned(text, "live", service, 1, 0, FALSE, AnalyzeError(service))
    ELSE Returned(text, "live", service, 1, ParseResponse(service.val).loads,
                  ParseResponse(service.val).unfenced,
                  IF ParseResponse(service.val).out.ok
                  THEN Caught(SetItem(ParseResponse(service.val).out.val, "raw_text",
                                      Str(text.val)))
                  ELSE AnalyzeError(ParseResponse(service.val).out))

\* analyze_resume calling the service a second time when the first call failed.
AnalyzeTextRetry(self, text, service) ==
    IF ~text.ok
    THEN Returned(text, "none", NotCalled, 0, 0, FALSE, AnalyzeError(text))
    ELSE IF ~Truthy(Str(Strip(text.val)))
    THEN Returned(text, "none", NotCalled, 0, 0, FALSE,
                  AnalyzeError(Raise("ValueError", "No text could be extracted from the PDF")))
    ELSE IF self.use_mock
    THEN Returned(text, "mock", NotCalled, 0, 0, FALSE, Ok(get_mock_analysis(text.val)))
    ELSE IF ~service.ok
    THEN Returned(text, "live", service, 2, 0, FALSE, AnalyzeError(service))
    ELSE Returned(text, "live", service, 1, ParseResponse(service.val).loads,
                  ParseResponse(service.val).unfenced,
                  IF ParseResponse(service.val).out.ok
                  THEN Caught(SetItem(ParseResponse(service.val).out.val, "raw_text",
                                      Str(text.val)))
                  ELSE AnalyzeError(ParseResponse(service.val).out))

\* analyze_resume from the extracted text on: the check of the text, then the
\* mock analysis or the call of the service and the decoding of its answer.
AnalyzeText(self, text, service) ==
    IF ~text.ok
    THEN Returned(text, "none", NotCalled, 0, 0, FALSE, AnalyzeError(text))
    ELSE IF ~Truthy(Str(Strip(text.val)))
    THEN Returned(text, "none", NotCalled, 0, 0, FALSE,
                  AnalyzeError(Raise("ValueError", "No text could be extracted from the PDF")))
    ELSE IF self.use_mock
    THEN Returned(text, "mock", NotCalled, 0, 0, FALSE, Ok(get_mock_analysis(text.val)))
    ELSE IF ~service.ok
    THEN Returned(text, "live", service, 1, 0, FALSE, AnalyzeError(service))
    ELSE AnalyzeParsed(text, service, ParseResponse(service.val))

\* analyze_resume(pdf_file) on the parser self, the service answering the one
\* call with `service` (a response text, or an exception).
analyze_resume(self, pdf_file, service) ==
    AnalyzeText(self, extract_text_from_pdf(pdf_file), service)

\* Whether analyze_resume(pdf_file) reaches the call of the service.
ReachesService(self, pdf_file) == analyze_resume(self, pdf_file, NotCalled).calls = 1

\* obj.get(key, default): an outcome, since only a dictionary has get.
Get(obj, key, default) ==
    IF obj.t = "dict"
    THEN Ok(IF key \in DOMAIN obj.d THEN obj.d[key] ELSE default)
    ELSE Raise("AttributeError", "'" \o TypeName(obj) \o "' object has no attribute 'get'")

\* Get on a dictionary: the value.
GetVal(obj, key, default) == Get(obj, key, default).val

\* format_for_database taking raw_text out of the profile it archives.
format_for_database_popped(analysis_data, filename) ==
    LET personal_info == Get(analysis_data, "personal_info", EmptyDict)
        skills        == Get(analysis_data, "skills", EmptyDict)
        analysis      == Get(analysis_data, "analysis", EmptyDict)
    IN  IF ~personal_info.ok THEN personal_info
        ELSE IF personal_info.val.t # "dict" THEN Get(personal_info.val, "name", None)
        ELSE IF skills.val.t # "dict" THEN Get(skills.val, "core_skills", List(<<>>))
        ELSE IF analysis.val.t # "dict" THEN Get(analysis.val, "resume_rating", Num(0, 0))
        ELSE Ok(Dict([
               filename            |-> Str(filename),
               name                |-> GetVal(personal_info.val, "name", None),
               email               |-> GetVal(personal_info.val, "email", None),
               phone               |-> GetVal(personal_info.val, "phone", None),
               address             |-> GetVal(personal_info.val, "address", None),
               linkedin            |-> GetVal(personal_info.val, "linkedin", None),
               github              |-> GetVal(personal_info.val, "github", None),
               website             |-> GetVal(personal_info.val, "website", None),
               core_skills         |-> GetVal(skills.val, "core_skills", List(<<>>)),
               soft_skills         |-> GetVal(skills.val, "soft_skills", List(<<>>)),
               certifications      |-> GetVal(skills.val, "certifications", List(<<>>)),
               languages           |-> GetVal(skills.val, "languages", List(<<>>)),
               work_experience     |-> GetVal(analysis_data, "work_experience", List(<<>>)),
               education           |-> GetVal(analysis_data, "education", List(<<>>)),
               projects            |-> GetVal(analysis_data, "projects", List(<<>>)),
               achievements        |-> GetVal(analysis_data, "achievements", List(<<>>)),
               resume_rating       |-> GetVal(analysis.val, "resume_rating", Num(0, 0)),
               improvement_areas   |-> GetVal(analysis.val, "improvement_areas", Str("")),
               upskill_suggestions |-> GetVal(analysis.val, "upskill_suggestions", Str("")),
               strengths           |-> GetVal(analysis.val, "strengths", Str("")),
               missing_sections    |-> GetVal(analysis.val, "missing_sections", List(<<>>)),
               raw_text            |-> GetVal(analysis_data, "raw_text", Str("")),
               structured_data     |->
                   Dict([k \in DOMAIN analysis_data.d \ {"raw_text"} |->
                           analysis_data.d[k]])]))

\* format_for_database(analysis_data, filename): the flat mapping, or the
\* AttributeError of the first get on a value that is no dictionary.
format_for_database(analysis_data, filename) ==
    LET personal_info == Get(analysis_data, "personal_info", EmptyDict)
        skills        == Get(analysis_data, "skills", EmptyDict)
        analysis      == Get(analysis_data, "analysis", EmptyDict)
    IN  IF ~personal_info.ok THEN personal_info
        ELSE IF personal_info.val.t # "dict" THEN Get(personal_info.val, "name", None)
        ELSE IF skills.val.t # "dict" THEN Get(skills.val, "core_skills", List(<<>>))
        ELSE IF analysis.val.t # "dict" THEN Get(analysis.val, "resume_rating", Num(0, 0))
        ELSE Ok(Dict([
               filename            |-> Str(filename),
               name                |-> GetVal(personal_info.val, "name", None),
               email               |-> GetVal(personal_info.val, "email", None),
               phone               |-> GetVal(personal_info.val, "phone", None),
               address             |-> GetVal(personal_info.val, "address", None),
               linkedin            |-> GetVal(personal_info.val, "linkedin", None),
               github              |-> GetVal(personal_info.val, "github", None),
               website             |-> GetVal(personal_info.val, "website", None),
               core_skills         |-> GetVal(skills.val, "core_skills", List(<<>>)),
               soft_skills         |-> GetVal(skills.val, "soft_skills", List(<<>>)),
               certifications      |-> GetVal(skills.val, "certifications", List(<<>>)),
               languages           |-> GetVal(skills.val, "languages", List(<<>>)),
               work_experience     |-> GetVal(analysis_data, "work_experience", List(<<>>)),
               education           |-> GetVal(analysis_data, "education", List(<<>>)),
               projects            |-> GetVal(analysis_data, "projects", List(<<>>)),
               achievements        |-> GetVal(analysis_data, "achievements", List(<<>>)),
               resume_rating       |-> GetVal(analysis.val, "resume_rating", Num(0, 0)),
               improvement_areas   |-> GetVal(analysis.val, "improvement_areas", Str("")),
               upskill_suggestions |-> GetVal(analysis.val, "upskill_suggestions", Str("")),
               strengths           |-> GetVal(analysis.val, "strengths", Str("")),
               missing_sections    |-> GetVal(analysis.val, "missing_sections", List(<<>>)),
               raw_text            |-> GetVal(analysis_data, "raw_text", Str("")),
               structured_data     |-> analysis_data]))

(***************************************************************************)
(* schemas.py: the response models.  A model is built from keyword          *)
(* arguments: every field is checked against its declared type, a missing   *)
(* field takes its default, and one that has none, or a value of another    *)
(* type, is a ValidationError.  The types are checked as declared; the      *)
(* conversions pydantic adds on its own (a number given for a string, a     *)
(* numeric string given for a float) differ between its versions and are    *)
(* not among the values used here.                                          *)
(***************************************************************************)
IsStr(v) == v.t = "str"

IsDict(v) == v.t = "dict"

IsListOfStr(v) == v.t = "list" /\ \A i \in 1..Len(v.l) : IsStr(v.l[i])

\* Whether value v is of the declared type.
IsInstance(type, v) ==
    CASE type = "str"            -> IsStr(v)
      [] type = "Optional[str]"  -> v.t = "None" \/ IsStr(v)
      [] type = "float"          -> v.t = "num"
      [] type = "List[str]"      -> IsListOfStr(v)
      [] type = "List[dict]"     -> v.t = "list" /\ \A i \in 1..Len(v.l) : IsDict(v.l[i])
      [] OTHER                   -> FALSE

ValidationError(model) == Raise("ValidationError", "validation error for " \o model)

\* A model of scalar and list fields built from the dictionary d: fields maps
\* each field to its type, defaults the optional ones to their default.
BaseModel(model, fields, defaults, d) ==
    IF /\ IsDict(d)
       /\ \A k \in DOMAIN fields :
            IF k \in DOMAIN d.d THEN IsInstance(fields[k], d.d[k]) ELSE k \in DOMAIN defaults
    THEN Ok(Dict([k \in DOMAIN fields |-> IF k \in DOMAIN d.d THEN d.d[k] ELSE defaults[k]]))
    ELSE ValidationError(model)

WorkExperience(d) ==
    BaseModel("WorkExperience",
              [company |-> "str", position |-> "str", duration |-> "str",
               location |-> "Optional[str]", description |-> "List[str]",
               technologies |-> "List[str]"],
              [location |-> None, technologies |-> List(<<>>)], d)

Education(d) ==
    BaseModel("Education",
              [institution |-> "str", degree |-> "str", field_of_study |-> "str",
               graduation_date |-> "Optional[str]", gpa |-> "Optional[str]",
               location |-> "Optional[str]"],
              [graduation_date |-> None, gpa |-> None, location |-> None], d)

Project(d) ==
    BaseModel("Project",
              [name |-> "str", description |-> "str", technologies |-> "List[str]",
               duration |-> "Optional[str]", url |-> "Optional[str]"],
              [duration |-> None, url |-> None], d)

\* The entry of a list field that holds models.
Entry(model, d) ==
    CASE model = "WorkExperience" -> WorkExperience(d)
      [] model = "Education"      -> Education(d)
      [] model = "Project"        -> Project(d)

\* A field declared List[model]: the list of the models built from its entries.
ListOfModels(model, v) ==
    IF v.t = "list" /\ \A i \in 1..Len(v.l) : Entry(model, v.l[i]).ok
    THEN Ok(List([i \in 1..Len(v.l) |-> Entry(model, v.l[i]).val]))
    ELSE ValidationError("ResumeAnalysis")

\* ResumeAnalysis(**kw): all its fields are given by both callers.
ResumeAnalysis(kw) ==
    IF /\ \A k \in {"name", "email", "phone", "address", "linkedin", "github", "website"} :
            IsInstance("Optional[str]", kw[k])
       /\ \A k \in {"core_skills", "soft_skills", "certifications", "achievements",
                    "missing_sections"} : IsInstance("List[str]", kw[k])
       /\ IsInstance("List[dict]", kw["languages"])
       /\ ListOfModels("WorkExperience", kw["work_experience"]).ok
       /\ ListOfModels("Education", kw["education"]).ok
       /\ ListOfModels("Project", kw["projects"]).ok
       /\ IsInstance("float", kw["resume_rating"])
       /\ \A k \in {"improvement_areas", "upskill_suggestions", "strengths"} :
            IsInstance("str", kw[k])
    THEN Ok([t |-> "ResumeAnalysis",
             d |-> [k \in DOMAIN kw |->
                      CASE k = "work_experience" -> ListOfModels("WorkExperience", kw[k]).val
                        [] k = "education"       -> ListOfModels("Education", kw[k]).val
                        [] k = "projects"        -> ListOfModels("Project", kw[k]).val
                        [] OTHER                 -> kw[k]]])
    ELSE ValidationError("ResumeAnalysis")

(***************************************************************************)
(* main.py: the request handlers.  The store is the sequence of the rows    *)
(* of table resumes, oldest first; a row is its id and its columns, as      *)
(* format_for_database names them (upload_date, which the store sets on     *)
(* its own, is left out).  The ids come from a counter that never goes      *)
(* back.  What the store answers to a write is an input: it may accept or   *)
(* refuse it.                                                               *)
(***************************************************************************)
HTTPException(status_code, detail) == [status |-> status_code, detail |-> detail]

\* The answer of a handler that returned.
Response(body) == [status |-> 200, body |-> body]

\* db.query(Resume).filter(Resume.id == resume_id).first(): the row, or None.
First(rows, resume_id) ==
    IF \E i \in 1..Len(rows) : rows[i].id = resume_id
    THEN rows[Min({i \in 1..Len(rows) : rows[i].id = resume_id})]
    ELSE None

\* Resume(**db_data), with the id the store gives it.
Resume(id, db_data) == [t |-> "Resume", id |-> id, cols |-> db_data.d]

\* The rows without those of this id and of the ids before it.
WithoutUpTo(rows, resume_id) ==
    SelectSeq(rows, LAMBDA row : row.id > resume_id)

\* The rows without the one of this id.
Without(rows, resume_id) ==
    SelectSeq(rows, LAMBDA row : row.id # resume_id)

\* What a handler did: its answer, the rows and the id counter it leaves, and
\* what its call of analyze_resume did.
Handled(response, rows, next, res) ==
    [response |-> response, db |-> rows, next_id |-> next, res |-> res]

\* analyze_resume was not called.
NotAnalyzed == Returned(NotCalled, "none", NotCalled, 0, 0, FALSE, NotCalled)

\* The handler of upload_resume: db.rollback() and a 500 that carries str(e).
UploadError(e) == HTTPException(500, "Error processing resume: " \o e.msg)

\* The keyword arguments of ResumeAnalysis in upload_resume.
UploadResponseData(personal_info, skills, analysis, analysis_data) ==
    [name                |-> GetVal(personal_info, "name", None),
     email               |-> GetVal(personal_info, "email", None),
     phone               |-> GetVal(personal_info, "phone", None),
     address             |-> GetVal(personal_info, "address", None),
     linkedin            |-> GetVal(personal_info, "linkedin", None),
     github              |-> GetVal(personal_info, "github", None),
     website             |-> GetVal(personal_info, "website", None),
     core_skills         |-> GetVal(skills, "core_skills", List(<<>>)),
     soft_skills         |-> GetVal(skills, "soft_skills", List(<<>>)),
     certifications      |-> GetVal(skills, "certifications", List(<<>>)),
     languages           |-> GetVal(skills, "languages", List(<<>>)),
     work_experience     |-> GetVal(analysis_data, "work_experience", List(<<>>)),
     education           |-> GetVal(analysis_data, "education", List(<<>>)),
     projects            |-> GetVal(analysis_data, "projects", List(<<>>)),
     achievements        |-> GetVal(analysis_data, "achievements", List(<<>>)),
     resume_rating       |-> GetVal(analysis, "resume_rating", Num(0, 0)),
     improvement_areas   |-> GetVal(analysis, "improvement_areas", Str("")),
     upskill_suggestions |-> GetVal(analysis, "upskill_suggestions", Str("")),
     strengths           |-> GetVal(analysis, "strengths", Str("")),
     missing_sections    |-> GetVal(analysis, "missing_sections", List(<<>>))]

\* upload_resume, step 5, the response built: the answer.
UploadBuilt(resume_id, response_data) ==
    IF response_data.ok
    THEN Response([message   |-> "Resume uploaded and analyzed successfully",
                   resume_id |-> resume_id,
                   analysis  |-> response_data.val])
    ELSE UploadError(response_data)

\* upload_resume, step 5: the row is stored by now, and stays so whatever
\* happens; format_for_database has read the three sections before, so they
\* are dictionaries.
UploadRespond(rows, next, res, analysis_data) ==
    Handled(UploadBuilt(rows[Len(rows)].id,
                        ResumeAnalysis(UploadResponseData(
                            GetVal(analysis_data, "personal_info", EmptyDict),
                            GetVal(analysis_data, "skills", EmptyDict),
                            GetVal(analysis_data, "analysis", EmptyDict),
                            analysis_data))),
            rows, next, res)

\* upload_resume, step 4: the row is added and committed, with the next id.
\* A write the store refuses leaves the rows as they were; the id may be used
\* up all the same.
UploadStore(rows, next, res, db_data, store) ==
    IF ~db_data.ok THEN Handled(UploadError(db_data), rows, next, res)
    ELSE IF ~store.commit.ok
    THEN Handled(UploadError(store.commit), rows, IF store.used THEN next + 1 ELSE next, res)
    ELSE UploadRespond(Append(rows, Resume(next, db_data.val)), next + 1,
                       res, res.out.val)

\* upload_resume, steps 2 and 3: the analysis, and its formatting.
UploadAnalyzed(rows, next, filename, res, store) ==
    IF ~res.out.ok THEN Handled(UploadError(res.out), rows, next, res)
    ELSE UploadStore(rows, next, res, format_for_database(res.out.val, filename), store)

\* upload_resume(file, db) on the rows, the service answering the parser's
\* call with `service` and the store answering the write with `store`.  The
\* HTTPException of step 1 is raised inside the try block, so the handler
\* below catches it as it catches everything: `shown` is its str().
upload_resume(self, rows, next, filename, pdf_file, service, store, shown) ==
    IF ~EndsWith(filename, ".pdf")
    THEN Handled(UploadError(Raise("HTTPException", shown)), rows, next, NotAnalyzed)
    ELSE UploadAnalyzed(rows, next, filename, analyze_resume(self, pdf_file, service), store)

\* Whether upload_resume reaches the parser's call of the service.
UploadReachesService(self, filename, pdf_file) ==
    EndsWith(filename, ".pdf") /\ ReachesService(self, pdf_file)

\* The keyword arguments of ResumeAnalysis in get_resume_details.
DetailsData(cols) ==
    [name                |-> cols["name"],
     email               |-> cols["email"],
     phone               |-> cols["phone"],
     address             |-> cols["address"],
     linkedin            |-> cols["linkedin"],
     github              |-> cols["github"],
     website             |-> cols["website"],
     core_skills         |-> Or(cols["core_skills"], List(<<>>)),
     soft_skills         |-> Or(cols["soft_skills"], List(<<>>)),
     certifications      |-> Or(cols["certifications"], List(<<>>)),
     languages           |-> Or(cols["languages"], List(<<>>)),
     work_experience     |-> Or(cols["work_experience"], List(<<>>)),
     education           |-> Or(cols["education"], List(<<>>)),
     projects            |-> Or(cols["projects"], List(<<>>)),
     achievements        |-> Or(cols["achievements"], List(<<>>)),
     resume_rating       |-> Or(cols["resume_rating"], Num(0, 0)),
     improvement_areas   |-> Or(cols["improvement_areas"], Str("")),
     upskill_suggestions |-> Or(cols["upskill_suggestions"], Str("")),
     strengths           |-> Or(cols["strengths"], Str("")),
     missing_sections    |-> Or(cols["missing_sections"], List(<<>>))]

\* get_resume_details, the row found: the model, or the 500 of the handler.
DetailsBuilt(details) ==
    IF details.ok THEN Response(details.val)
    ELSE HTTPException(500, "Error fetching resume details: " \o details.msg)

\* get_resume_details(resume_id, db)
get_resume_details(rows, resume_id) ==
    IF ~Truthy(First(rows, resume_id)) THEN HTTPException(404, "Resume not found")
    ELSE DetailsBuilt(ResumeAnalysis(DetailsData(First(rows, resume_id).cols)))

\* delete_resume(resume_id, db), the store answering the commit with `commit`.
delete_resume(rows, next, resume_id, commit) ==
    IF ~Truthy(First(rows, resume_id))
    THEN Handled(HTTPException(404, "Resume not found"), rows, next, NotAnalyzed)
    ELSE IF ~commit.ok
    THEN Handled(HTTPException(500, "Error deleting resume: " \o commit.msg), rows, next,
                 NotAnalyzed)
    ELSE Handled(Response([message |-> "Resume deleted successfully"]),
                 Without(rows, resume_id), next, NotAnalyzed)

(***************************************************************************)
(* Inputs                                                                  *)
(***************************************************************************)
MaxPages == 2

SeqsUpTo(S, n) == UNION {[1..k -> S] : k \in 0..n}

\* The process environment, with and without the credential.
Environments ==
    {[DATABASE_URL |-> "postgresql://localhost/resumes"]}
    \cup {[DATABASE_URL |-> "postgresql://localhost/resumes", GEMINI_API_KEY |-> k] :
             k \in {"", PlaceholderKey, "AIzaSy-live-key", "YOUR_GEMINI_API_KEY_HERE"}}

\* What extract_text() gives for a page: its text, or an exception.
PageTexts == {" \n", "Jane Doe\njane@example.com.\nSkills: Docker, PYTHON "}

Pages == {Ok(t) : t \in PageTexts} \cup {Raise("PdfReadError", "Invalid page object")}

Unreadable == [reader |-> Raise("PdfReadError", "EOF marker not found"), pages |-> <<>>]

Readable(pages) == [reader |-> Ok("PdfReader"), pages |-> pages]

PdfFiles == {Unreadable} \cup {Readable(p) : p \in SeqsUpTo(Pages, MaxPages)}

\* The texts the methods that take a text are called with.
ResumeTexts ==
    {"", "hello", "Jane jane@Example.com, knows Docker and PYTHON",
     "Mail (Ann.Lee@Mail.ORG), or al@x.io",
     "ask [bob@site.org].",
     "root@localhost v1.2",
     "I like JavaScript, AWS.",
     "git, docker; AWS then SQL and React"}
    \cup {extract_text_from_pdf(f).val : f \in {g \in PdfFiles : extract_text_from_pdf(g).ok}}

Filenames == {"cv.pdf", "notes.txt"}

\* A complete profile, as the prompt asks for it.
GoodJson ==
    "{\"personal_info\":{\"name\":\"Jane Doe\",\"email\":\"jane@example.com\","
    \o "\"phone\":null,\"address\":null,\"linkedin\":null,\"github\":null,\"website\":null},"
    \o "\"skills\":{\"core_skills\":[\"Python\",\"Docker\"],\"soft_skills\":[],"
    \o "\"certifications\":[],\"languages\":[{\"language\":\"English\",\"proficiency\":\"Native\"}]},"
    \o "\"work_experience\":[{\"company\":\"Acme\",\"position\":\"Engineer\","
    \o "\"duration\":\"2020 - 2024\",\"location\":null,\"description\":[\"Built services\"],"
    \o "\"technologies\":[\"Python\"]}],\"education\":[],\"projects\":[],\"achievements\":[],"
    \o "\"analysis\":{\"resume_rating\":8.5,\"strengths\":\"Clear\","
    \o "\"improvement_areas\":\"Add metrics\",\"upskill_suggestions\":\"Learn AWS\","
    \o "\"missing_sections\":[\"Summary\"]}}"

\* JSON texts: objects (complete, empty, with null sections, with ratings out
\* of range and not numeric, with a raw_text of their own) and a value that is
\* no object.
JsonTexts ==
    { GoodJson,
      "{}",
      "{\"personal_info\":null,\"skills\":null,\"analysis\":null}",
      "{\"skills\":{\"core_skills\":null},\"analysis\": {\"resume_rating\": 11}}",
      "{\"analysis\":{\"resume_rating\":\"high\"}}",
      "{\"raw_text\":\"text written by the service\",\"analysis\":{\"resume_rating\":-1}}",
      "[1, 2]" }

\* Texts that are no JSON.
BrokenTexts ==
    { "Here is the analysis: {}",
      "{\"analysis\":" }

Prefixes == {"", "~~~json\n", " ~~~"}

Suffixes == {"", "\n~~~ ", "abc"}

\* What the service can answer: any body between any prefix and suffix.
Responses ==
    {pre \o body \o suf : pre \in Prefixes, body \in JsonTexts \cup BrokenTexts, suf \in Suffixes}

\* The outcome of self.llm([message]): response.content, or an exception.
ServiceOutcomes ==
    {Ok(r) : r \in Responses} \cup {Raise("ServiceError", "503 The model is overloaded")}

MaxUploads == 2

\* The files sent to upload_resume: unreadable, without text, with text.
UploadPdfFiles ==
    {Unreadable} \cup {Readable(<<Ok(t)>>) : t \in PageTexts}

\* What the service answers to the parser called by upload_resume.
UploadServiceOutcomes ==
    {Raise("ServiceError", "503 The model is overloaded")}
    \cup {Ok(r) : r \in {GoodJson,
                         "{}",
                         "{\"analysis\":{\"resume_rating\":\"high\"}}",
                         "{\"analysis\":{\"strengths\":null}}",
                         "{\"personal_info\":null,\"skills\":null,\"analysis\":null}",
                         "Here is the analysis: {}"}}

\* What db.commit() answers.
CommitOutcomes ==
    {Ok(None), Raise("OperationalError", "server closed the connection unexpectedly")}

\* What the store answers to the write of a row, and whether the write used
\* up an id.
StoreOutcomes ==
    {[commit |-> Ok(None), used |-> TRUE]}
    \cup {[commit |-> c, used |-> u] : c \in {o \in CommitOutcomes : ~o.ok}, u \in BOOLEAN}

\* str() of the HTTPException of upload_resume's step 1: status and detail,
\* or nothing, with the version of the framework.
HTTPExceptionStrs == {"400: Only PDF files are supported", ""}

ResumeIds == 1..(MaxUploads + 1)

\* The uploads that are handled side by side.
MaxPipelines == 2

Pipelines == 1..MaxPipelines

\* The documents uploaded side by side: two with a text, one without.
PipelinePdfFiles ==
    {Readable(<<Ok(t)>>) : t \in {"Jane Doe\njane@example.com.\nSkills: Docker, PYTHON ",
                                   "Ann Lee\nann@example.org\nAWS",
                                   " \n"}}

\* What the store answers and what str() of the HTTPException gives, for an
\* upload among others: the one the upload does not come to is left at one value,
\* the store being reached by a PDF only and the exception raised for the rest.
PipelineOutcomes(filename) ==
    IF EndsWith(filename, ".pdf")
    THEN {[store |-> s, shown |-> ""] : s \in StoreOutcomes}
    ELSE {[store |-> [commit |-> Ok(None), used |-> TRUE], shown |-> h] : h \in HTTPExceptionStrs}

\* What the service answers to the parser called by an upload among others.
PipelineServiceOutcomes ==
    {Raise("ServiceError", "503 The model is overloaded")}
    \cup {Ok(r) : r \in {GoodJson, "{}", "{\"analysis\":{\"strengths\":null}}"}}

(***************************************************************************)
(* The state machine of the parser: the methods of the one ResumeParser,   *)
(* called one after the other.  analyze_resume takes two steps when it     *)
(* calls the service: up to the call, and from the service's answer on.    *)
(***************************************************************************)
Self == [use_mock |-> use_mock, llm |-> llm]

Init ==
    /\ \E environ \in Environments :
         /\ api_key = Getenv(environ, "GEMINI_API_KEY")
         /\ use_mock = ResumeParserInit(Getenv(environ, "GEMINI_API_KEY")).use_mock
         /\ llm = ResumeParserInit(Getenv(environ, "GEMINI_API_KEY")).llm
    /\ db = <<>>
    /\ next_id = 1
    /\ pc = "idle"
    /\ last = [op |-> "__init__"]
    /\ uploads = [p \in Pipelines |-> [pc |-> "idle"]]

\* analyze_resume(pdf_file), up to its return or to the call of the service.
AnalyzeResumeCall ==
    /\ pc = "idle"
    /\ \E pdf_file \in PdfFiles :
         IF ReachesService(Self, pdf_file)
         THEN /\ pc' = "llm"
              /\ last' = [op |-> "analyze_resume", pdf_file |-> pdf_file]
         ELSE /\ pc' = "idle"
              /\ last' = [op |-> "analyze_resume", pdf_file |-> pdf_file,
                          res |-> analyze_resume(Self, pdf_file, NotCalled)]
    /\ UNCHANGED <<api_key, use_mock, llm, db, next_id, uploads>>

\* analyze_resume(pdf_file), from the service's answer to the return.
AnalyzeResumeReturn ==
    /\ pc = "llm"
    /\ last.op = "analyze_resume"
    /\ \E service \in ServiceOutcomes :
         last' = [op |-> "analyze_resume", pdf_file |-> last.pdf_file,
                  res |-> analyze_resume(Self, last.pdf_file, service)]
    /\ pc' = "idle"
    /\ UNCHANGED <<api_key, use_mock, llm, db, next_id, uploads>>

GetMockAnalysis ==
    /\ pc = "idle"
    /\ \E resume_text \in ResumeTexts :
         last' = [op |-> "get_mock_analysis", resume_text |-> resume_text,
                  out |-> Ok(get_mock_analysis(resume_text))]
    /\ UNCHANGED <<api_key, use_mock, llm, db, next_id, pc, uploads>>

CreateAnalysisPrompt ==
    /\ pc = "idle"
    /\ \E resume_text \in ResumeTexts :
         last' = [op |-> "create_analysis_prompt", resume_text |-> resume_text,
                  out |-> Ok(Str(create_analysis_prompt(resume_text)))]
    /\ UNCHANGED <<api_key, use_mock, llm, db, next_id, pc, uploads>>

ExtractTextFromPdf ==
    /\ pc = "idle"
    /\ \E pdf_file \in PdfFiles :
         last' = [op |-> "extract_text_from_pdf", pdf_file |-> pdf_file,
                  out |-> extract_text_from_pdf(pdf_file)]
    /\ UNCHANGED <<api_key, use_mock, llm, db, next_id, pc, uploads>>

\* Whether the last call returned a dictionary of analyze_resume.
Analyzed == pc = "idle" /\ last.op = "analyze_resume" /\ last.res.out.ok

\* format_for_database(analysis_data, filename) on what analyze_resume returned.
FormatForDatabase ==
    /\ Analyzed
    /\ \E filename \in Filenames :
         last' = [op |-> "format_for_database", call |-> last, filename |-> filename,
                  out |-> format_for_database(last.res.out.val, filename)]
    /\ UNCHANGED <<api_key, use_mock, llm, db, next_id, pc, uploads>>

Next ==
    \/ AnalyzeResumeCall
    \/ AnalyzeResumeReturn
    \/ GetMockAnalysis
    \/ CreateAnalysisPrompt
    \/ ExtractTextFromPdf
    \/ FormatForDatabase

Spec == Init /\ [][Next]_vars

(***************************************************************************)
(* The state machine of the application: requests handled one after the    *)
(* other on the one parser built at startup and on the store.  An upload   *)
(* takes two steps when its parser calls the service.                      *)
(***************************************************************************)
\* The end of upload_resume.
UploadFinish(filename, pdf_file, handled) ==
    /\ db' = handled.db
    /\ next_id' = handled.next_id
    /\ pc' = "idle"
    /\ last' = [op |-> "upload_resume", filename |-> filename, pdf_file |-> pdf_file,
                res |-> handled.res, response |-> handled.response]

\* POST /upload-resume, up to its answer or to the call of the service.
UploadResumeCall ==
    /\ pc = "idle"
    /\ next_id <= MaxUploads
    /\ \E filename \in Filenames, pdf_file \in UploadPdfFiles :
         IF UploadReachesService(Self, filename, pdf_file)
         THEN /\ pc' = "llm"
              /\ last' = [op |-> "upload_resume", filename |-> filename,
                          pdf_file |-> pdf_file]
              /\ UNCHANGED <<db, next_id>>
         ELSE \E store \in StoreOutcomes, shown \in HTTPExceptionStrs :
                UploadFinish(filename, pdf_file,
                             upload_resume(Self, db, next_id, filename, pdf_file,
                                           NotCalled, store, shown))
    /\ UNCHANGED <<api_key, use_mock, llm, uploads>>

\* POST /upload-resume, from the service's answer to the handler's.
UploadResumeReturn ==
    /\ pc = "llm"
    /\ last.op = "upload_resume"
    /\ \E service \in UploadServiceOutcomes, store \in StoreOutcomes,
          shown \in HTTPExceptionStrs :
         UploadFinish(last.filename, last.pdf_file,
                      upload_resume(Self, db, next_id, last.filename, last.pdf_file,
                                    service, store, shown))
    /\ UNCHANGED <<api_key, use_mock, llm, uploads>>

\* GET /resume/{resume_id}
GetResumeDetails ==
    /\ pc = "idle"
    /\ \E resume_id \in ResumeIds :
         last' = [op |-> "get_resume_details", resume_id |-> resume_id,
                  response |-> get_resume_details(db, resume_id)]
    /\ UNCHANGED <<api_key, use_mock, llm, db, next_id, pc, uploads>>

\* The end of delete_resume.
DeleteFinish(resume_id, handled) ==
    /\ db' = handled.db
    /\ last' = [op |-> "delete_resume", resume_id |-> resume_id,
                response |-> handled.response]

\* DELETE /resume/{resume_id}
DeleteResume ==
    /\ pc = "idle"
    /\ \E resume_id \in ResumeIds, commit \in CommitOutcomes :
         DeleteFinish(resume_id, delete_resume(db, next_id, resume_id, commit))
    /\ UNCHANGED <<api_key, use_mock, llm, next_id, pc, uploads>>

NextApp ==
    \/ UploadResumeCall
    \/ UploadResumeReturn
    \/ GetResumeDetails
    \/ DeleteResume

SpecApp == Init /\ [][NextApp]_vars

(***************************************************************************)
(* Uploads handled side by side.  Each is a call of upload_resume with its  *)
(* own locals; they share the parser, the table and its key.  An upload     *)
(* gives way to the others where it waits for the service, nowhere else.    *)
(***************************************************************************)

\* The uploads other than p that wait for the service.
InFlight(ups, p) == {q \in DOMAIN ups : q # p /\ ups[q].pc = "llm"}

\* The document upload p reads after the service has answered, as if the
\* parser kept the document of the call that came last in a field of its own.
PipelineDocumentShared(ups, p) ==
    IF InFlight(ups, p) = {} THEN ups[p].pdf_file
    ELSE ups[CHOOSE q \in InFlight(ups, p) : TRUE].pdf_file

\* The document upload p reads: file.file, its own argument, which
\* analyze_resume and extract_text_from_pdf keep in their locals.
PipelineDocument(ups, p) == ups[p].pdf_file

\* Upload p is answered.
PipelineFinish(p, filename, pdf_file, service, store, shown, handled) ==
    /\ db' = handled.db
    /\ next_id' = handled.next_id
    /\ uploads' = [uploads EXCEPT ![p] =
                     [pc |-> "done", filename |-> filename, pdf_file |-> pdf_file,
                      service |-> service, store |-> store, shown |-> shown,
                      among |-> InFlight(uploads, p),
                      res |-> handled.res, response |-> handled.response]]

\* POST /upload-resume of upload p, up to its answer or to the call of the service.
PipelineCall(p) ==
    /\ uploads[p].pc = "idle"
    /\ \E filename \in Filenames, pdf_file \in PipelinePdfFiles :
         IF UploadReachesService(Self, filename, pdf_file)
         THEN /\ uploads' = [uploads EXCEPT ![p] =
                               [pc |-> "llm", filename |-> filename, pdf_file |-> pdf_file]]
              /\ UNCHANGED <<db, next_id>>
         ELSE \E given \in PipelineOutcomes(filename) :
                PipelineFinish(p, filename, pdf_file, NotCalled, given.store, given.shown,
                               upload_resume(Self, db, next_id, filename, pdf_file,
                                             NotCalled, given.store, given.shown))
    /\ UNCHANGED <<api_key, use_mock, llm, pc, last>>

\* POST /upload-resume of upload p, from the service's answer on.
PipelineReturn(p) ==
    /\ uploads[p].pc = "llm"
    /\ \E service \in PipelineServiceOutcomes, given \in PipelineOutcomes(uploads[p].filename) :
         PipelineFinish(p, uploads[p].filename, uploads[p].pdf_file, service,
                        given.store, given.shown,
                        upload_resume(Self, db, next_id, uploads[p].filename,
                                      PipelineDocument(uploads, p), service,
                                      given.store, given.shown))
    /\ UNCHANGED <<api_key, use_mock, llm, pc, last>>

NextPipelines ==
    \E p \in Pipelines :
        \/ PipelineCall(p)
        \/ PipelineReturn(p)

SpecPipelines == Init /\ [][NextPipelines]_vars

(***************************************************************************)
(* Properties of the parser (Spec) and of the application (SpecApp)        *)
(***************************************************************************)
\* analyze_resume has returned, or raised.
AnalyzeReturned == pc = "idle" /\ last.op = "analyze_resume"

\* analyze_resume has returned, or raised, after the service answered with a text.
LiveAnswered == AnalyzeReturned /\ last.res.via = "live" /\ last.res.service.ok

\* upload_resume has answered.
UploadAnswered == pc = "idle" /\ last.op = "upload_resume"

\* The extraction gave a text that is empty or whitespace.
BlankText(text) == text.ok /\ Strip(text.val) = ""

\* The text is valid JSON.
IsJson(text) == JsonLoads(text).ok

\* The text, whitespace around it aside, is a fenced block of valid JSON: an
\* opening fence, with or without the word json, the JSON text, a closing fence.
IsFencedJson(text) ==
    \E open \in {BacktickFenceJson, BacktickFence} :
      /\ Len(Strip(text)) >= Len(open) + Len(BacktickFence)
      /\ StartsWith(Strip(text), open)
      /\ EndsWith(Strip(text), BacktickFence)
      /\ IsJson(SubSeq(Strip(text), Len(open) + 1, Len(Strip(text)) - Len(BacktickFence)))

\* C1: in live mode, a response text that is neither valid JSON nor a valid
\* fenced JSON block makes analyze_resume end in an error: it returns no record.
C1_MalformedResponseIsError ==
    (LiveAnswered /\ ~IsJson(last.res.service.val) /\ ~IsFencedJson(last.res.service.val))
        => ~last.res.out.ok

\* The openings and the closing of a fenced block.
FenceOpenings == {"~~~json\n", " ~~~"}

FenceClosing == "\n~~~ "

\* C2: a JSON text J wrapped in a fenced block is decoded by analyze_resume to
\* what J alone is decoded to, by the second of two decodings; characters are
\* cut off a response only after its decoding as a whole failed, and there are
\* never more than two decodings.
C2_FencedDecodesAsUnwrapped ==
    LiveAnswered =>
        /\ last.res.loads \in {1, 2}
        /\ last.res.unfenced => (~IsJson(last.res.service.val) /\ last.res.loads = 2)
        /\ \A J \in JsonTexts, open \in FenceOpenings :
             last.res.service.val = open \o J \o FenceClosing =>
                 /\ last.res.out = analyze_resume(Self, last.pdf_file, Ok(J)).out
                 /\ last.res.unfenced
                 /\ analyze_resume(Self, last.pdf_file, Ok(J)).loads = 1

\* A complete profile came back fenced, and was decoded at the second attempt.
C2_Witness ==
    /\ LiveAnswered
    /\ last.res.service.val = "~~~json\n" \o GoodJson \o FenceClosing
    /\ last.res.out.ok
    /\ last.res.loads = 2
    /\ last.res.out.val.d["personal_info"].d["name"] = Str("Jane Doe")

\* C3: the parser is in mock mode, without a client, exactly when the
\* credential is absent, empty or the placeholder, and in live mode, with a
\* client, for every other credential.
C3_MockIffNoCredential ==
    /\ use_mock <=> (api_key = None \/ api_key = Str("") \/ api_key = Str(PlaceholderKey))
    /\ use_mock => llm = None
    /\ ~use_mock => llm # None /\ llm.google_api_key = api_key.s

\* A parser built with the placeholder credential has analysed a resume.
C3_Witness ==
    /\ api_key = Str(PlaceholderKey)
    /\ use_mock
    /\ AnalyzeReturned
    /\ last.res.out.ok

\* C4: no call changes the strategy of the parser; a parser in mock mode never
\* calls the service, and a parser in live mode never returns the mock analysis.
C4_StrategyFixed ==
    [][/\ use_mock' = use_mock
       /\ llm' = llm
       /\ pc' = "llm" => ~use_mock
       /\ (pc' = "idle" /\ last'.op = "analyze_resume") =>
            IF use_mock
            THEN last'.res.calls = 0 /\ last'.res.service = NotCalled /\ last'.res.via # "live"
            ELSE /\ last'.res.via # "mock"
                 /\ last'.res.out.ok => last'.res.out.val # get_mock_analysis(last'.res.text.val)
      ]_vars

\* A parser in live mode has called the service, analysed a resume and
\* formatted the result.
C4_Witness ==
    /\ ~use_mock
    /\ last.op = "format_for_database"
    /\ last.call.res.via = "live"
    /\ last.call.res.calls = 1

\* C5: an upload whose PDF gives an empty or whitespace-only text ends in an
\* error of analyze_resume in both strategies: no profile is returned, the
\* service is not called, the store is left as it was and the answer is no success.
C5_EmptyTextIsErrorNothingStored ==
    [][(pc' = "idle" /\ last'.op = "upload_resume" /\ BlankText(last'.res.text)) =>
          /\ ~last'.res.out.ok
          /\ last'.res.via = "none"
          /\ last'.res.calls = 0
          /\ pc = "idle"
          /\ db' = db
          /\ last'.response.status # 200
      ]_vars

\* A PDF without text was uploaded to a parser in mock mode, the store holding
\* a record.
C5_Witness ==
    /\ UploadAnswered
    /\ BlankText(last.res.text)
    /\ use_mock
    /\ Len(db) > 0

\* C6: an upload whose PDF gives no text is answered with a client error
\* (a status from 400 to 499).
C6_EmptyTextIsClientError ==
    (UploadAnswered /\ BlankText(last.res.text)) => last.response.status \in 400..499

\* The entry of dictionary d under key k, None when it has none.
Item(d, k) == IF d.t = "dict" /\ k \in DOMAIN d.d THEN d.d[k] ELSE None

IsList(v) == v.t = "list"

\* A number from 0 to 10.
RatingInRange(v) == v.t = "num" /\ 0 <= v.m /\ v.m <= 10 * Pow10(v.e)

\* C7: every profile analyze_resume returns has all its list fields as lists
\* and a rating from 0 to 10.
C7_ProfileComplete ==
    (AnalyzeReturned /\ last.res.out.ok) =>
        /\ \A k \in {"core_skills", "soft_skills", "certifications", "languages"} :
             IsList(Item(Item(last.res.out.val, "skills"), k))
        /\ \A k \in {"work_experience", "education", "projects", "achievements"} :
             IsList(Item(last.res.out.val, k))
        /\ IsList(Item(Item(last.res.out.val, "analysis"), "missing_sections"))
        /\ RatingInRange(Item(Item(last.res.out.val, "analysis"), "resume_rating"))

\* The rating the decoded response carries, None when it carries none.
DecodedRating(response_content) ==
    IF ParseResponse(response_content).out.ok
    THEN Item(Item(ParseResponse(response_content).out.val, "analysis"), "resume_rating")
    ELSE None

\* C8: when the decoded response carries a rating that is no number from 0 to
\* 10, the profile and the formatted record have the rating 0, and formatting
\* succeeds.
C8_BadRatingBecomesZero ==
    (/\ pc = "idle"
     /\ last.op = "format_for_database"
     /\ last.call.res.via = "live"
     /\ DecodedRating(last.call.res.service.val) # None
     /\ ~RatingInRange(DecodedRating(last.call.res.service.val))) =>
        /\ Item(Item(last.call.res.out.val, "analysis"), "resume_rating") = Num(0, 0)
        /\ last.out.ok
        /\ last.out.val.d["resume_rating"] = Num(0, 0)

\* C9: format_for_database returns a mapping, for every profile analyze_resume
\* returns and every filename.
C9_FormatterTotal ==
    (pc = "idle" /\ last.op = "format_for_database") => last.out.ok

\* C10: the raw_text of every profile analyze_resume returns is the text
\* extracted from the PDF, trimmed, whatever raw_text the decoded response has
\* of its own; it is not the response text.
C10_RawTextIsExtractedText ==
    (AnalyzeReturned /\ last.res.out.ok) =>
        /\ last.res.text = extract_text_from_pdf(last.pdf_file)
        /\ last.res.text.val = Strip(last.res.text.val)
        /\ last.res.out.val.d["raw_text"] = Str(last.res.text.val)
        /\ last.res.service.ok => last.res.out.val.d["raw_text"] # Str(last.res.service.val)

\* The service answered with an object that has a raw_text of its own.
C10_Witness ==
    /\ LiveAnswered
    /\ last.res.out.ok
    /\ IsJson(last.res.service.val)
    /\ Item(JsonLoads(last.res.service.val).val, "raw_text") = Str("text written by the service")
    /\ Len(last.pdf_file.pages) = 2

\* C11: a run of analyze_resume in live mode on a text that is not blank calls
\* the service exactly once; when that call fails the run ends in an error that
\* carries the failure, with no second call and no record; every other run
\* (mock mode, no text, unreadable PDF) makes no call.
C11_OneCallPerRun ==
    [][(pc' = "idle" /\ last'.op = "analyze_resume") =>
          /\ last'.res.calls = (IF pc = "llm" THEN 1 ELSE 0)
          /\ (pc = "llm") <=>
               (~use_mock /\ last'.res.text.ok /\ Strip(last'.res.text.val) # "")
          /\ (pc = "llm" /\ ~last'.res.service.ok) =>
               /\ ~last'.res.out.ok
               /\ last'.res.out.msg = "Error analyzing resume: " \o last'.res.service.msg
               /\ last'.res.loads = 0
      ]_vars

\* The one call of a live run failed, and the run ended in an error.
C11_Witness ==
    /\ AnalyzeReturned
    /\ ~use_mock
    /\ last.res.calls = 1
    /\ last.res.service = Raise("ServiceError", "503 The model is overloaded")
    /\ ~last.res.out.ok

\* get_mock_analysis has returned.
MockReturned == pc = "idle" /\ last.op = "get_mock_analysis"

\* The email of a returned analysis.
EmailOf(analysis) == analysis.d["personal_info"].d["email"]

\* A token that holds both "@" and ".".
IsEmailLike(token) ==
    /\ \E i \in 1..Len(token) : At(token, i) = "@"
    /\ \E i \in 1..Len(token) : At(token, i) = "."

\* The positions of the tokens that look like an email.
EmailLike(tokens) == {i \in 1..Len(tokens) : IsEmailLike(tokens[i])}

IsPunctuation(c) == c \in {".", ",", "(", ")", "[", "]"}

\* Every character of s is punctuation.
AllPunctuation(s) == \A i \in 1..Len(s) : IsPunctuation(At(s, i))

\* token without the punctuation at its end.
WithoutTrailing(token) ==
    SubSeq(token, 1,
           Max({0} \cup {i \in 1..Len(token) : ~IsPunctuation(At(token, i))}))

\* e is token without the punctuation at both its ends.
IsTrimmed(e, token) ==
    \E a \in 0..Len(token), b \in 0..Len(token) :
      /\ a <= b
      /\ e = SubSeq(token, a + 1, b)
      /\ AllPunctuation(SubSeq(token, 1, a))
      /\ AllPunctuation(SubSeq(token, b + 1, Len(token)))
      /\ e # "" => (~IsPunctuation(At(e, 1)) /\ ~IsPunctuation(At(e, Len(e))))

\* C12, as stated: for a text with exactly one token holding "@" and ".", the
\* email is that token without its trailing punctuation; for a text with none,
\* the placeholder; for a text with several, the first of them, trimmed alike.
C12_EmailIsTokenSansTrailing ==
    (MockReturned /\ last.out.ok) =>
        IF EmailLike(Split(last.resume_text)) = {}
        THEN EmailOf(last.out.val) = Str("sample@email.com")
        ELSE EmailOf(last.out.val) =
                 Str(WithoutTrailing(Split(last.resume_text)[
                         Min(EmailLike(Split(last.resume_text)))]))

\* C12, amended: the tokens are those of the text in lower case; when some
\* token holds "@" and ".", the email is the first such token without the
\* punctuation . , ( ) [ ] at both its ends; when none does, the placeholder.
C12_EmailIsFirstLoweredTokenTrimmed ==
    (MockReturned /\ last.out.ok) =>
        /\ EmailOf(last.out.val).t = "str"
        /\ IF EmailLike(Split(Lower(last.resume_text))) = {}
           THEN EmailOf(last.out.val) = Str("sample@email.com")
           ELSE IsTrimmed(EmailOf(last.out.val).s,
                          Split(Lower(last.resume_text))[
                              Min(EmailLike(Split(Lower(last.resume_text))))])

\* A text with two such tokens, the first in upper case and in parentheses.
C12_Witness ==
    /\ MockReturned
    /\ Cardinality(EmailLike(Split(last.resume_text))) = 2
    /\ EmailOf(last.out.val) = Str("ann.lee@mail.org")

\* The core skills of a returned analysis.
CoreSkillsOf(analysis) == analysis.d["skills"].d["core_skills"]

\* The fixed keywords, and how each is written in the list of skills.
Keywords ==
    [python |-> "Python", javascript |-> "Javascript", java |-> "Java", react |-> "React",
     node |-> "Node", sql |-> "Sql", git |-> "Git", aws |-> "Aws", docker |-> "Docker",
     kubernetes |-> "Kubernetes"]

\* Whether keyword occurs in text, upper and lower case taken as the same.
Occurs(keyword, text) ==
    \E i \in 0..(Len(text) - Len(keyword)) :
      \A j \in 1..Len(keyword) : LowerChar(At(text, i + j)) = At(keyword, j)

\* The elements of a list.
Elements(v) == {v.l[i] : i \in 1..Len(v.l)}

\* C13: a keyword is among the core skills, capitalized, exactly when it occurs
\* in the text in whatever case, and nothing else is; when no keyword occurs,
\* the core skills are Python, JavaScript, SQL.
C13_SkillsAreKeywordsInText ==
    (MockReturned /\ last.out.ok) =>
        /\ IsList(CoreSkillsOf(last.out.val))
        /\ IF \E k \in DOMAIN Keywords : Occurs(k, last.resume_text)
           THEN Elements(CoreSkillsOf(last.out.val)) =
                    {Str(Keywords[k]) : k \in {x \in DOMAIN Keywords : Occurs(x, last.resume_text)}}
           ELSE CoreSkillsOf(last.out.val) =
                    List(<<Str("Python"), Str("JavaScript"), Str("SQL")>>)

\* A text with PYTHON in upper case and Docker.
C13_Witness ==
    /\ MockReturned
    /\ Occurs("python", last.resume_text)
    /\ ~Contains(last.resume_text, "python")
    /\ CoreSkillsOf(last.out.val) = List(<<Str("Python"), Str("Docker")>>)

\* The keys of a complete analysis.
ProfileKeys ==
    {"personal_info", "skills", "work_experience", "education", "projects", "achievements",
     "analysis", "raw_text"}

\* A complete record of the mock analysis of text: all the keys, the marker in
\* the name, the text as raw_text.
IsMockRecord(record, text) ==
    /\ record.t = "dict"
    /\ DOMAIN record.d = ProfileKeys
    /\ record.d["personal_info"].d["name"].t = "str"
    /\ Contains(record.d["personal_info"].d["name"].s, "(Mock)")
    /\ record.d["raw_text"] = Str(text)

\* C14: for every text that is not empty, get_mock_analysis returns, called on
\* its own or by analyze_resume, a complete record with the marker (Mock) in
\* the name.
C14_MockAnalysisComplete ==
    /\ (MockReturned /\ last.resume_text # "") =>
           (last.out.ok /\ IsMockRecord(last.out.val, last.resume_text))
    /\ (AnalyzeReturned /\ last.res.via = "mock") =>
           (last.res.out.ok /\ IsMockRecord(last.res.out.val, last.res.text.val))

\* The mock analysis of a text without email and without keyword.
C14_Witness ==
    /\ MockReturned
    /\ last.resume_text = "hello"
    /\ last.out.val.d["personal_info"].d["name"] = Str("Sample Name (Mock)")
    /\ EmailOf(last.out.val) = Str("sample@email.com")

\* get_resume_details has answered.
DetailsAnswered == pc = "idle" /\ last.op = "get_resume_details"

\* The fields of a profile, as format_for_database names them.
ProfileFields ==
    {"name", "email", "phone", "address", "linkedin", "github", "website", "core_skills",
     "soft_skills", "certifications", "languages", "work_experience", "education",
     "projects", "achievements", "resume_rating", "improvement_areas",
     "upskill_suggestions", "strengths", "missing_sections", "raw_text"}

\* C16: get_resume_details of a stored record answers with a profile that has
\* every field of the formatted record, with the same value.
C16_ReadBackEqualsFormatted ==
    (DetailsAnswered /\ First(db, last.resume_id) # None) =>
        /\ last.response.status = 200
        /\ \A k \in ProfileFields :
             /\ k \in DOMAIN last.response.body.d
             /\ last.response.body.d[k] = First(db, last.resume_id).cols[k]

\* extract_text_from_pdf has returned or raised.
ExtractReturned == pc = "idle" /\ last.op = "extract_text_from_pdf"

\* Whether the reader opened the file and every page gave its text.
AllPagesRead(pdf_file) ==
    pdf_file.reader.ok /\ \A i \in 1..Len(pdf_file.pages) : pdf_file.pages[i].ok

\* The page texts with one newline between consecutive pages.
RECURSIVE JoinedByNewline(_)
JoinedByNewline(pages) ==
    IF Len(pages) = 0 THEN ""
    ELSE IF Len(pages) = 1 THEN pages[1].val
    ELSE pages[1].val \o "\n" \o JoinedByNewline(Tail(pages))

AllSpace(s) == \A i \in 1..Len(s) : IsSpace(At(s, i))

\* Whether r is s without its leading and trailing whitespace.
IsTrimOf(r, s) ==
    /\ r # "" => (~IsSpace(At(r, 1)) /\ ~IsSpace(At(r, Len(r))))
    /\ \E a \in 0..Len(s), b \in 0..Len(s) :
         /\ a <= b
         /\ r = SubSeq(s, a + 1, b)
         /\ AllSpace(SubSeq(s, 1, a))
         /\ AllSpace(SubSeq(s, b + 1, Len(s)))

\* C17: when every page gives its text, extract_text_from_pdf returns the page
\* texts joined by a newline, without leading and trailing whitespace, and the
\* result is not empty when some page has a character that is not whitespace.
C17_ExtractJoinsAndTrims ==
    (ExtractReturned /\ AllPagesRead(last.pdf_file)) =>
        /\ last.out.ok
        /\ IsTrimOf(last.out.val, JoinedByNewline(last.pdf_file.pages))
        /\ (\E i \in 1..Len(last.pdf_file.pages) : ~AllSpace(last.pdf_file.pages[i].val))
             => last.out.val # ""

C17_Witness ==
    /\ ExtractReturned /\ AllPagesRead(last.pdf_file)
    /\ Len(last.pdf_file.pages) = 2
    /\ \A i \in 1..2 : ~AllSpace(last.pdf_file.pages[i].val)
    /\ last.out.ok /\ last.out.val # ""

\* C18: an upload that is answered with an error leaves the stored rows as
\* they were, and an upload that stores a row has extracted, analyzed and
\* formatted before.
C18_FailedUploadStoresNothing ==
    [][(pc' = "idle" /\ last'.op = "upload_resume") =>
          /\ last'.response.status # 200 => db' = db
          /\ db' # db =>
               /\ last'.res.text.ok
               /\ last'.res.out.ok
               /\ format_for_database(last'.res.out.val, last'.filename).ok]_vars

\* C19: an upload whose filename does not end in .pdf is answered with status
\* 400 and detail 'Only PDF files are supported', the parser is not invoked
\* and no row is stored.
C19_NonPdfIsRejectedWith400 ==
    [][(pc' = "idle" /\ last'.op = "upload_resume" /\ ~EndsWith(last'.filename, ".pdf")) =>
          /\ last'.response.status = 400
          /\ last'.response.detail = "Only PDF files are supported"
          /\ last'.res = NotAnalyzed
          /\ db' = db]_vars

\* Upload p is answered in this step.
Answered(p) == uploads[p].pc # "done" /\ uploads'[p].pc = "done"

\* upload_resume on what upload u was given, with no other upload and an empty table.
Alone(u) ==
    upload_resume(Self, <<>>, 1, u.filename, u.pdf_file, u.service, u.store, u.shown)

\* Whether two answers are the same, the identifier of the row aside.
SameAnswer(a, b) ==
    /\ a.status = b.status
    /\ IF a.status = 200
       THEN a.body.message = b.body.message /\ a.body.analysis = b.body.analysis
       ELSE a.detail = b.detail

\* Whether the table went from `before` to `after` as upload u does alone:
\* nothing, or one row added with the same columns, the rows before untouched.
SameWrite(before, after, u, alone) ==
    IF alone.db = <<>> THEN after = before
    ELSE /\ Len(after) = Len(before) + 1
         /\ SubSeq(after, 1, Len(before)) = before
         /\ after[Len(after)].cols = alone.db[1].cols
         /\ \A i \in 1..Len(before) : before[i].id # after[Len(after)].id
         /\ u.response.status = 200 => u.response.body.resume_id = after[Len(after)].id

\* C20: an upload handled among others is answered, and writes, as it does
\* alone on the same document with the same answers of the service and of the
\* store; it leaves the other uploads and the parser as they were.
C20_UploadsIndependent ==
    [][\A p \in Pipelines :
          Answered(p) =>
            /\ SameAnswer(uploads'[p].response, Alone(uploads'[p]).response)
            /\ uploads'[p].res = Alone(uploads'[p]).res
            /\ SameWrite(db, db', uploads'[p], Alone(uploads'[p]))
            /\ \A q \in Pipelines \ {p} : uploads'[q] = uploads[q]
            /\ UNCHANGED <<api_key, use_mock, llm>>]_vars

\* An upload was answered and stored its row while another, with another
\* document, waited for the service, which answered that one later.
C20_Witness ==
    \E p \in Pipelines, q \in Pipelines :
      /\ p # q
      /\ uploads[p].pc = "done" /\ uploads[q].pc = "done"
      /\ q \in uploads[p].among
      /\ uploads[p].pdf_file # uploads[q].pdf_file
      /\ uploads[p].response.status = 200 /\ uploads[q].response.status = 200
      /\ Len(db) = 2

\* The fixed keyword list, in its order.
KeywordList ==
    <<"python", "javascript", "java", "react", "node", "sql", "git", "aws", "docker",
      "kubernetes">>

\* Whether the skill is the keyword, written in whatever case.
IsKeyword(skill, keyword) ==
    /\ Len(skill.s) = Len(keyword)
    /\ \A j \in 1..Len(keyword) : LowerChar(At(skill.s, j)) = At(keyword, j)

\* The places of the keyword list that hold the skill.
PlacesOf(skill) == {n \in 1..Len(KeywordList) : IsKeyword(skill, KeywordList[n])}

\* Whether the list of skills follows the keyword list: every entry a keyword,
\* each further down the keyword list than the entry before.
FollowsKeywordList(skills) ==
    /\ \A i \in 1..Len(skills) : PlacesOf(skills[i]) # {}
    /\ \A i \in 1..Len(skills), j \in 1..Len(skills) :
         i < j => \A a \in PlacesOf(skills[i]), b \in PlacesOf(skills[j]) : a < b

\* Whether `short` is the first n entries of `long`, or all of them if fewer.
IsFirst(n, short, long) ==
    /\ Len(short) = (IF Len(long) < n THEN Len(long) ELSE n)
    /\ \A i \in 1..Len(short) : short[i] = long[i]

WorkTechnologiesOf(analysis) == analysis.d["work_experience"].l[1].d["technologies"]

ProjectTechnologiesOf(analysis) == analysis.d["projects"].l[1].d["technologies"]

\* C21: the core skills of the mock analysis follow the order of the keyword
\* list, whatever the order of the keywords in the text, without duplicates;
\* the technologies of the work experience are the first three of them and
\* those of the project the first two, or Python, React and Python when no
\* keyword occurs in the text.
C21_SkillsInKeywordOrder ==
    (MockReturned /\ last.out.ok) =>
        /\ FollowsKeywordList(CoreSkillsOf(last.out.val).l)
        /\ IF \E k \in DOMAIN Keywords : Occurs(k, last.resume_text)
           THEN /\ IsFirst(3, WorkTechnologiesOf(last.out.val).l, CoreSkillsOf(last.out.val).l)
                /\ IsFirst(2, ProjectTechnologiesOf(last.out.val).l, CoreSkillsOf(last.out.val).l)
           ELSE /\ WorkTechnologiesOf(last.out.val) = List(<<Str("Python"), Str("React")>>)
                /\ ProjectTechnologiesOf(last.out.val) = List(<<Str("Python")>>)

\* A text naming five keywords in the reverse of the list's order.
C21_Witness ==
    /\ MockReturned
    /\ last.resume_text = "git, docker; AWS then SQL and React"
    /\ CoreSkillsOf(last.out.val) =
           List(<<Str("React"), Str("Sql"), Str("Git"), Str("Aws"), Str("Docker")>>)
    /\ Len(WorkTechnologiesOf(last.out.val).l) = 3
    /\ Len(ProjectTechnologiesOf(last.out.val).l) = 2

\* format_for_database returns or raises in this step.
Formats == pc' = "idle" /\ last'.op = "format_for_database" /\ last' # last

\* C22: format_for_database leaves the profile it is given and the parser as
\* they were; the mapping it returns has the given filename, and under
\* structured_data the whole profile, every key with its value, raw_text
\* included.
C22_FormatterKeepsProfile ==
    [][Formats =>
          /\ UNCHANGED <<api_key, use_mock, llm>>
          /\ last'.call = last
          /\ last'.out.ok =>
               /\ last'.out.val.d["filename"] = Str(last'.filename)
               /\ DOMAIN last'.out.val.d["structured_data"].d = DOMAIN last.res.out.val.d
               /\ \A k \in DOMAIN last.res.out.val.d :
                    last'.out.val.d["structured_data"].d[k] = last.res.out.val.d[k]
               /\ "raw_text" \in DOMAIN last'.out.val.d["structured_data"].d]_vars

\* A profile of the service, with its raw_text, was formatted under a filename.
C22_Witness ==
    /\ pc = "idle" /\ last.op = "format_for_database"
    /\ last.out.ok
    /\ last.call.res.via = "live"
    /\ last.filename = "notes.txt"
    /\ last.out.val.d["structured_data"].d["raw_text"] = Str(last.call.res.text.val)
    /\ last.call.res.text.val # ""

\* Whether a row of this id is stored.
Stored(rows, resume_id) == \E i \in 1..Len(rows) : rows[i].id = resume_id

\* Whether `after` is `before` less its one row of this id, the others as they were.
RemovedExactly(before, after, resume_id) ==
    /\ ~Stored(after, resume_id)
    /\ \E i \in 1..Len(before) :
         /\ before[i].id = resume_id
         /\ after = SubSeq(before, 1, i - 1) \o SubSeq(before, i + 1, Len(before))

NotFound(response) == response.status = 404 /\ response.detail = "Resume not found"

\* C23: a delete of a stored identifier that succeeds removes exactly that
\* record and leaves the others as they were, and one the store refuses leaves
\* all of them; an identifier once removed is never stored again; a get or a
\* delete of an identifier that is not stored is answered 404 'Resume not
\* found' and leaves the store as it was, as does every get.
C23_DeleteAndLookup ==
    [][/\ (pc' = "idle" /\ last'.op = "delete_resume") =>
            IF Stored(db, last'.resume_id)
            THEN \/ /\ last'.response.status = 200
                    /\ RemovedExactly(db, db', last'.resume_id)
                    /\ NotFound(get_resume_details(db', last'.resume_id))
                 \/ /\ last'.response.status = 500
                    /\ db' = db
            ELSE NotFound(last'.response) /\ db' = db
       /\ (pc' = "idle" /\ last'.op = "get_resume_details") =>
            /\ db' = db
            /\ ~Stored(db, last'.resume_id) => NotFound(last'.response)
       /\ \A resume_id \in ResumeIds :
            (resume_id < next_id /\ ~Stored(db, resume_id)) => ~Stored(db', resume_id)]_vars

\* The first of two stored records was deleted, and the second is still there.
C23_Witness ==
    /\ pc = "idle" /\ last.op = "delete_resume"
    /\ last.resume_id = 1
    /\ last.response.status = 200
    /\ Len(db) = 1 /\ db[1].id = 2
====
